---- MODULE Spec2Model ----
(***************************************************************************)
(* Model of the incremental synchronisation engine of Homemade-Pinterest:  *)
(* TweetDownloader.retrieve_all_likes (src/download_tweets.py), i.e. the   *)
(* paginated harvest loop with its consecutive-seen stopping heuristic and *)
(* the merge of the fetched window into the persisted corpus file          *)
(* output/liked_tweets.json.                                               *)
(*                                                                         *)
(* One sync run is a sequential walk through retrieve_all_likes, split    *)
(* where the upstream decides what happens next: StartRun reads the corpus *)
(* file (lines 38-58); RequestPage / FetchFail are the call of             *)
(* retrieve_likes_page (lines 61-64); ProcessEntry is one iteration of the *)
(* for loop over the page (lines 66-83), the entry drawn from what the     *)
(* upstream can serve; EndOfPage is the cursor logic (lines 85-94);        *)
(* FinishRun is everything after the loop (lines 96-140).                  *)
(*                                                                         *)
(* The upstream is either arbitrary (any entry, any cursor, a failure at   *)
(* any request: Spec, SpecHarvest) or a fixed linearly-ordered feed served *)
(* in pages of page_size entries (SpecFeed).                               *)
(* SpecConverge is one run against a feed that is the persisted corpus     *)
(* with new tweets in front; SpecRing is one run against an upstream whose *)
(* cursors cycle, under the fairness of a program that keeps running.      *)
(*                                                                         *)
(* The second half models the media store of src/parse_media.py and the    *)
(* refresh handler of src/gallery_server.py.  The store is the files of    *)
(* MEDIA_DIR and AVATAR_DIR (one name space, file name -> bytes), the hash *)
(* cache file and the duplicate-URL file.  main() is full_cleanup (one     *)
(* step, the listing order of the folders chosen freely) followed by one   *)
(* batch of download_single_file workers, each stepped at its two          *)
(* critical sections under SHARED_LOCK and at the return of its network    *)
(* call.  SpecCleanup runs full_cleanup on any store, SpecMedia runs       *)
(* main() again and again in one thread, SpecServer runs it in the threads *)
(* of overlapping refresh requests.  The refresh response is a function   *)
(* of the corpus file before and after the sync run and of its mtime.      *)
(***************************************************************************)
EXTENDS Integers, Sequences, FiniteSets, TLC

(* ---------------------------- bounds ---------------------------------- *)
\* Pages the upstream serves successfully within one harvest.
MaxPages == 2
\* Timeline entries on one page (the trailing cursor entry not counted).
MaxPageLen == 2
\* Valid tweets the upstream serves within one harvest.
MaxFetched == 3
\* consecutive_seen_limit is drawn from 1..MaxLimit.
MaxLimit == 2
\* Sync runs in one behaviour of Spec.
MaxRuns == 2
\* Length of the corpus a single run (SpecHarvest, SpecReconcile) starts from.
MaxCorpus == 2

\* Tweet identifiers the upstream can serve.
TweetIds == {"A", "B", "C"}
\* Continuation tokens the arbitrary upstream can return (opaque to the
\* program, which only compares them).
Cursors == {1, 2}
\* Python's None for a cursor.
NoCursor == 0
\* The order in which a feed lists its tweets, newest first.
FeedOrder == <<"A", "B", "C">>

(* ---------------------------- data ------------------------------------ *)
\* A parsed tweet, as TweetParser.tweet_as_json returns it: its identifier
\* and its content, where ver tells two fetches of the same tweet apart.
TweetsOf(versions) == [tweet_id : TweetIds, ver : versions]
\* A timeline entry that is no tweet (cursor entries, tombstones, ...).
NotATweet == [tweet_id |-> "", ver |-> 0]

\* TweetParser.is_valid_tweet
is_valid_tweet(raw) == raw.tweet_id # ""

SeqsUpTo(S, n) == UNION {[1..k -> S] : k \in 0..n}

IdsOf(s) == {s[k].tweet_id : k \in 1..Len(s)}
\* s[k:] of Python, k 0-based.
SliceFrom(s, k) == SubSeq(s, k + 1, Len(s))

(* ---------------------------- state ----------------------------------- *)
VARIABLES
    output_file,            \* OUTPUT_FILE: [st: absent | unreadable | ok, tweets]
    pc,                     \* idle | request | for | after_loop
    runs,                   \* sync runs started so far
    consecutive_seen_limit, \* the parameter of retrieve_all_likes
    first_run,
    existing_tweets,
    existing_ids_before,    \* the keys of existing_tweet_map
    fetched_tweets,
    seen_streak,
    cursor,
    old_cursor,
    current_page,
    page_pos,               \* entries of the current page the for loop has taken
    new_ids,
    removed_ids,
    \* history of the current run, read by the properties only
    file_before,            \* output_file when the run started
    valid_served,           \* the valid tweets the upstream served, in order
    requests,               \* calls of retrieve_likes_page
    req_cursor,             \* the cursor the last served page was requested with
    got_cursor,             \* what get_cursor extracted from that page
    stop_reason,            \* none | failed | streak | cursor
    \* the upstream of SpecFeed
    feed,                   \* the tweet ids of the feed, newest first
    page_size,              \* entries the feed serves per page
    \* what file_fingerprint reads besides the bytes of OUTPUT_FILE
    file_mtime,             \* st_mtime_ns of OUTPUT_FILE: one tick per write
    mtime_before,           \* file_mtime when the run started
    \* the media store of parse_media.py
    json_urls,              \* the media and avatar URLs of JSON_FILE
    disk,                   \* MEDIA_DIR and AVATAR_DIR: file name -> bytes
    hash_file,              \* MEDIA_HASH_CACHE: content hash -> file name
    dup_file,               \* DUPLICATE_URLS_FILE: URL -> file name
    lock,                   \* SHARED_LOCK: its holder, or NoWorker
    hpc,                    \* per thread: idle | cleanup | process | fetch
    hash_cache,             \* per thread: the hash_cache of process_tweets
    known_duplicates,       \* per thread: the dict of download_bulk_media
    unique_pairs,           \* per thread: the URLs of the batch
    wpc,                    \* per worker: none | start | fast | net | hashed | locked,
                            \* and having returned: failed (line 277) | done
    whash,                  \* per worker: file_hash
    wpath,                  \* per worker: final_path
    results,                \* per thread: URL -> what its worker returned
    mains,                  \* calls of main() so far
    \* history of the last full_cleanup, read by the properties only
    gc_runs,                \* full_cleanup runs so far
    gc_before,              \* disk, hash_file, dup_file when it started
    gc_scan,                \* the order in which the second pass met the files
    gc_removed              \* removed_to_kept

vars == <<output_file, pc, runs, consecutive_seen_limit, first_run,
          existing_tweets, existing_ids_before, fetched_tweets, seen_streak,
          cursor, old_cursor, current_page, page_pos, new_ids, removed_ids,
          file_before, valid_served, requests, req_cursor, got_cursor,
          stop_reason, feed, page_size, file_mtime, mtime_before,
          json_urls, disk, hash_file, dup_file, lock, hpc, hash_cache,
          known_duplicates, unique_pairs, wpc, whash, wpath, results, mains,
          gc_runs, gc_before, gc_scan, gc_removed>>

upstream == <<feed, page_size>>

store_vars == <<json_urls, disk, hash_file, dup_file, lock, hpc, hash_cache,
                known_duplicates, unique_pairs, wpc, whash, wpath, results,
                mains, gc_runs, gc_before, gc_scan, gc_removed>>

sync_vars == <<output_file, pc, runs, consecutive_seen_limit, first_run,
               existing_tweets, existing_ids_before, fetched_tweets,
               seen_streak, cursor, old_cursor, current_page, page_pos,
               new_ids, removed_ids, file_before, valid_served, requests,
               req_cursor, got_cursor, stop_reason, feed, page_size,
               file_mtime, mtime_before>>

run_locals == <<consecutive_seen_limit, first_run, existing_tweets,
                existing_ids_before>>

Absent == [st |-> "absent", tweets |-> <<>>]
Unreadable == [st |-> "unreadable", tweets |-> <<>>]
FileOf(tweets) == [st |-> "ok", tweets |-> tweets]

\* Lines 53-58, and the history variables of a run that starts.
LoopLocalsInit ==
    /\ fetched_tweets = <<>>
    /\ seen_streak = 0
    /\ cursor = NoCursor
    /\ old_cursor = NoCursor
    /\ current_page = 1
    /\ page_pos = 0
    /\ valid_served = <<>>
    /\ requests = 0
    /\ req_cursor = NoCursor
    /\ got_cursor = NoCursor
    /\ stop_reason = "none"

(* ---------------------------- the media store: data ------------------- *)
\* parse_media.py. Two image URLs whose servers send the same bytes, and a
\* video URL with bytes of its own.
Urls == {"u1", "u2", "u3"}
NoUrl == ""

\* CONVERT_EXTS: the URLs whose extension is .jpg, .jpeg or .png.
CONVERT_EXTS == {"u1", "u2"}

DOWNLOAD_IMAGES == TRUE

\* The threads that run main(): one per refresh request being handled.
Threads == {1, 2}

MaxMains == 2
MaxCleanups == 2

\* What resp.iter_content delivers for a URL.
BytesAt(url) == IF url \in {"u1", "u2"} THEN "x" ELSE "y"

\* What is on disk when the transfer broke before the first chunk.
Truncated == "cut"

\* The bytes image.save(webp_path, "webp") writes for an image.
WebpOf(bytes) == IF bytes = "x" THEN "x.webp" ELSE "y.webp"

NoContent == ""
Contents == {"x", "y", "x.webp", "y.webp", Truncated}

\* md5(url) + ext, and md5(url) + ".webp".
OriginalName(url) == <<url, "ext">>
WebpName(url) == <<url, "webp">>
NoName == <<NoUrl, "">>
Names == {OriginalName(u) : u \in Urls} \cup {WebpName(u) : u \in CONVERT_EXTS}

\* Lines 118-127.
canonical_media_filename(url) ==
    IF url = NoUrl THEN NoName
    ELSE IF url \in CONVERT_EXTS THEN WebpName(url)
    ELSE OriginalName(url)

\* Lines 85-98: "" when the file cannot be read; md5 is taken to be injective
\* on the bytes of the model.
compute_file_hash(d, name) == d[name]

Exists(d, name) == d[name] # NoContent
FilesOf(d) == {n \in Names : Exists(d, n)}
Unlink(d, name) == [d EXCEPT ![name] = NoContent]

NoFiles == [n \in Names |-> NoContent]
\* Lines 85-98 and 284: the hash of an unreadable file is "", a key like any.
NoHashes == [c \in Contents \cup {NoContent} |-> NoName]
NoDuplicates == [u \in Urls |-> NoName]
NoRemovals == [n \in Names |-> NoName]
NoWorker == <<0, NoUrl>>
StoreOf(d, hashes, dups) == [disk |-> d, hash_file |-> hashes, dup_file |-> dups]

\* No thread is running, the store is empty and the caches were never written.
ThreadsIdle ==
    /\ lock = NoWorker
    /\ hpc = [h \in Threads |-> "idle"]
    /\ hash_cache = [h \in Threads |-> NoHashes]
    /\ known_duplicates = [h \in Threads |-> NoDuplicates]
    /\ unique_pairs = [h \in Threads |-> {}]
    /\ wpc = [h \in Threads |-> [u \in Urls |-> "none"]]
    /\ whash = [h \in Threads |-> [u \in Urls |-> NoContent]]
    /\ wpath = [h \in Threads |-> [u \in Urls |-> NoName]]
    /\ results = [h \in Threads |-> [u \in Urls |-> NoName]]
    /\ mains = 0

NoCleanupYet ==
    /\ gc_runs = 0
    /\ gc_before = StoreOf(disk, hash_file, dup_file)
    /\ gc_scan = <<>>
    /\ gc_removed = NoRemovals

StoreIdle ==
    /\ json_urls = {}
    /\ disk = NoFiles
    /\ hash_file = NoHashes
    /\ dup_file = NoDuplicates
    /\ ThreadsIdle
    /\ NoCleanupYet

\* The sync variables while only the media store is looked at.
SyncIdle ==
    /\ output_file = Absent
    /\ pc = "idle"
    /\ runs = 0
    /\ consecutive_seen_limit = 1
    /\ first_run = TRUE
    /\ existing_tweets = <<>>
    /\ existing_ids_before = {}
    /\ new_ids = {}
    /\ removed_ids = {}
    /\ file_before = output_file
    /\ LoopLocalsInit
    /\ feed = <<>>
    /\ page_size = MaxPageLen
    /\ file_mtime = 0
    /\ mtime_before = 0

\* Before the first sync the corpus file does not exist, or holds something
\* json.load rejects.
Init ==
    /\ output_file \in {Absent, Unreadable}
    /\ pc = "idle"
    /\ runs = 0
    /\ consecutive_seen_limit = 1
    /\ first_run = TRUE
    /\ existing_tweets = <<>>
    /\ existing_ids_before = {}
    /\ new_ids = {}
    /\ removed_ids = {}
    /\ file_before = output_file
    /\ LoopLocalsInit
    /\ feed = <<>>
    /\ page_size = MaxPageLen
    /\ file_mtime = 0
    /\ mtime_before = 0
    /\ StoreIdle

(* ---------------------------- StartRun -------------------------------- *)
\* Lines 40-51: the file is missing, or json.load fails, or it is read.
ReadsAsFirstRun(file) == file.st # "ok"
ReadTweets(file) == IF file.st = "ok" THEN file.tweets ELSE <<>>

\* Lines 38-58: read the corpus file, reset the loop's locals.
StartRun ==
    /\ pc = "idle"
    /\ runs < MaxRuns
    /\ runs' = runs + 1
    /\ \E limit \in 1..MaxLimit : consecutive_seen_limit' = limit
    /\ first_run' = ReadsAsFirstRun(output_file)
    /\ existing_tweets' = ReadTweets(output_file)
    /\ existing_ids_before' = IdsOf(ReadTweets(output_file))
    /\ file_before' = output_file
    /\ fetched_tweets' = <<>>
    /\ seen_streak' = 0
    /\ cursor' = NoCursor
    /\ old_cursor' = NoCursor
    /\ current_page' = 1
    /\ page_pos' = 0
    /\ valid_served' = <<>>
    /\ requests' = 0
    /\ req_cursor' = NoCursor
    /\ got_cursor' = NoCursor
    /\ stop_reason' = "none"
    /\ mtime_before' = file_mtime
    /\ pc' = "request"
    /\ UNCHANGED <<output_file, new_ids, removed_ids, upstream, file_mtime,
                   store_vars>>

(* ---------------------------- the page loop --------------------------- *)
\* Lines 61-65: retrieve_likes_page returned a non-empty entry list.
PageArrives ==
    /\ pc = "request"
    /\ pc' = "for"
    /\ page_pos' = 0
    /\ requests' = requests + 1
    /\ req_cursor' = cursor
    /\ UNCHANGED <<output_file, runs, run_locals, fetched_tweets, seen_streak,
                   cursor, old_cursor, current_page, new_ids, removed_ids,
                   file_before, valid_served, got_cursor, stop_reason,
                   upstream, file_mtime, mtime_before, store_vars>>

\* The arbitrary upstream serves a page.
RequestPage ==
    /\ current_page <= MaxPages
    /\ PageArrives

\* As WindowAfterFailure, were a failed fetch to discard what was harvested.
WindowDiscarded(fetched) == <<>>

\* What the loop hands on when a page fetch fails (line 64: break).
WindowAfterFailure(fetched) == fetched

\* Lines 62-64 with lines 142-167: retrieve_likes_page caught an error (or
\* extract_likes_entries did) and returned None, or the entry list was empty.
FetchFail ==
    /\ pc = "request"
    /\ pc' = "after_loop"
    /\ requests' = requests + 1
    /\ stop_reason' = "failed"
    /\ fetched_tweets' = WindowAfterFailure(fetched_tweets)
    /\ UNCHANGED <<output_file, runs, run_locals, seen_streak, cursor,
                   old_cursor, current_page, page_pos, new_ids, removed_ids,
                   file_before, valid_served, req_cursor, got_cursor,
                   upstream, file_mtime, mtime_before, store_vars>>

\* As LoopBody, were line 76 to compare with > in place of >=.
LoopBodyLateStop(raw, known, limit, fetched, streak) ==
    IF ~is_valid_tweet(raw)
    THEN [fetched |-> fetched, streak |-> streak, brk |-> FALSE]
    ELSE IF raw.tweet_id \in known
    THEN IF streak + 1 > limit
         THEN [fetched |-> fetched, streak |-> streak + 1, brk |-> TRUE]
         ELSE [fetched |-> Append(fetched, raw), streak |-> streak + 1,
               brk |-> FALSE]
    ELSE [fetched |-> Append(fetched, raw), streak |-> 0, brk |-> FALSE]

\* Lines 67-83: the body of the for loop for one entry.  brk: the loop breaks.
LoopBody(raw, known, limit, fetched, streak) ==
    IF ~is_valid_tweet(raw)
    THEN [fetched |-> fetched, streak |-> streak, brk |-> FALSE]
    ELSE IF raw.tweet_id \in known
    THEN IF streak + 1 >= limit
         THEN [fetched |-> fetched, streak |-> streak + 1, brk |-> TRUE]
         ELSE [fetched |-> Append(fetched, raw), streak |-> streak + 1,
               brk |-> FALSE]
    ELSE [fetched |-> Append(fetched, raw), streak |-> 0, brk |-> FALSE]

\* Lines 66-86 for the entry raw of the page.  A break leaves the for loop
\* and then, by line 85, the while loop.
TakeEntry(raw) ==
    /\ pc = "for"
    /\ LET r == LoopBody(raw, existing_ids_before, consecutive_seen_limit,
                         fetched_tweets, seen_streak)
       IN  /\ fetched_tweets' = r.fetched
           /\ seen_streak' = r.streak
           /\ pc' = IF r.brk THEN "after_loop" ELSE "for"
           /\ stop_reason' = IF r.brk THEN "streak" ELSE stop_reason
    /\ valid_served' = IF is_valid_tweet(raw) THEN Append(valid_served, raw)
                       ELSE valid_served
    /\ page_pos' = page_pos + 1
    /\ UNCHANGED <<output_file, runs, run_locals, cursor, old_cursor,
                   current_page, new_ids, removed_ids, file_before, requests,
                   req_cursor, got_cursor, upstream, file_mtime, mtime_before, store_vars>>

\* The arbitrary upstream's page holds a further entry: any tweet, as it is
\* at the time of this run, or an entry that is no tweet.
ProcessEntry ==
    /\ page_pos < MaxPageLen
    /\ \E raw \in TweetsOf({runs}) \cup {NotATweet} :
        /\ is_valid_tweet(raw) => Len(valid_served) < MaxFetched
        /\ TakeEntry(raw)

\* Line 89: the loop ends when the page gives no cursor or a repeated one.
CursorStops(next_cursor, cur, old) ==
    next_cursor = NoCursor \/ next_cursor = old

\* Lines 85-94: the page is exhausted and get_cursor extracts next_cursor.
TakeCursor(next_cursor) ==
    /\ pc = "for"
    /\ IF seen_streak >= consecutive_seen_limit
       THEN /\ pc' = "after_loop"
            /\ stop_reason' = "streak"
            /\ UNCHANGED <<cursor, old_cursor, current_page, got_cursor>>
       ELSE /\ got_cursor' = next_cursor
            /\ IF CursorStops(next_cursor, cursor, old_cursor)
               THEN /\ pc' = "after_loop"
                    /\ stop_reason' = "cursor"
                    /\ UNCHANGED <<cursor, old_cursor, current_page>>
               ELSE /\ old_cursor' = cursor
                    /\ cursor' = next_cursor
                    /\ current_page' = current_page + 1
                    /\ pc' = "request"
                    /\ UNCHANGED stop_reason
    /\ UNCHANGED <<output_file, runs, run_locals, fetched_tweets, seen_streak,
                   page_pos, new_ids, removed_ids, file_before, valid_served,
                   requests, req_cursor, upstream, file_mtime, mtime_before, store_vars>>

\* The arbitrary upstream's page ends, with any cursor or none.
EndOfPage == \E next_cursor \in Cursors \cup {NoCursor} : TakeCursor(next_cursor)

(* ---------------------------- a fixed feed ---------------------------- *)
\* The feed's cursor after n entries is n; a request with cursor n (None: 0)
\* is answered by the next page_size entries.
FeedRequestPage == PageArrives

\* The feed's page holds a further entry: the next tweet of the feed.
FeedEntry ==
    /\ pc = "for"
    /\ page_pos < page_size
    /\ req_cursor + page_pos < Len(feed)
    /\ TakeEntry([tweet_id |-> feed[req_cursor + page_pos + 1], ver |-> runs])

\* The feed's page ends: its cursor entry names the position reached (at the
\* end of the feed that is the cursor of the request again).
FeedEndOfPage ==
    /\ pc = "for"
    /\ page_pos = page_size \/ req_cursor + page_pos = Len(feed)
    /\ TakeCursor(req_cursor + page_pos)

(* ---------------------------- merge ----------------------------------- *)
\* Line 109: the first index (1-based here) whose tweet has the id; 0 is None.
FirstIndexOf(s, id) ==
    IF id \in IdsOf(s)
    THEN CHOOSE k \in 1..Len(s) :
            /\ s[k].tweet_id = id
            /\ \A j \in 1..(k - 1) : s[j].tweet_id # id
    ELSE 0

\* As Merged, were the branch without overlap (line 114) to put the window
\* after the corpus.
MergedExistingFirst(fetched, existing) ==
    IF fetched # <<>>
    THEN LET oldest_fetched_id == fetched[Len(fetched)].tweet_id
             idx == FirstIndexOf(existing, oldest_fetched_id)
         IN  IF idx = 0
             THEN existing \o fetched
             ELSE fetched \o SliceFrom(existing, idx)
    ELSE existing

\* As Merged, were the branch without overlap (line 114) to keep the window
\* alone.
MergedWindowOnly(fetched, existing) ==
    IF fetched # <<>>
    THEN LET oldest_fetched_id == fetched[Len(fetched)].tweet_id
             idx == FirstIndexOf(existing, oldest_fetched_id)
         IN  IF idx = 0
             THEN fetched
             ELSE fetched \o SliceFrom(existing, idx)
    ELSE existing

\* Lines 105-120.
Merged(fetched, existing) ==
    IF fetched # <<>>
    THEN LET oldest_fetched_id == fetched[Len(fetched)].tweet_id
             idx == FirstIndexOf(existing, oldest_fetched_id)
         IN  IF idx = 0
             THEN fetched \o existing
             ELSE fetched \o SliceFrom(existing, idx)
    ELSE existing

\* Lines 122-128.
RECURSIVE DedupFrom(_, _, _, _)
DedupFrom(s, k, seen, deduped) ==
    IF k > Len(s) THEN deduped
    ELSE IF s[k].tweet_id \notin seen
        THEN DedupFrom(s, k + 1, seen \cup {s[k].tweet_id}, Append(deduped, s[k]))
    ELSE DedupFrom(s, k + 1, seen, deduped)

\* As Deduped, were the last record of an id to replace the earlier one
\* (a dict keyed by tweet_id: the first position, the last content).
RECURSIVE DedupLastFrom(_, _, _)
DedupLastFrom(s, k, deduped) ==
    IF k > Len(s) THEN deduped
    ELSE IF s[k].tweet_id \notin IdsOf(deduped)
        THEN DedupLastFrom(s, k + 1, Append(deduped, s[k]))
    ELSE DedupLastFrom(s, k + 1,
            [j \in 1..Len(deduped) |->
                IF deduped[j].tweet_id = s[k].tweet_id THEN s[k] ELSE deduped[j]])

DedupedKeepLast(merged) == DedupLastFrom(merged, 1, <<>>)

Deduped(merged) == DedupFrom(merged, 1, {}, <<>>)

\* Lines 96-98: what a first run writes.
FirstRunOutput(fetched) == fetched

\* Lines 133-135.
NewIds(final_ids, before) == final_ids \ before
RemovedIds(final_ids, before) == before \ final_ids

\* Lines 96-140: everything after the loop.
FinishRun ==
    /\ pc = "after_loop"
    /\ pc' = "idle"
    /\ IF first_run
       THEN /\ output_file' = FileOf(FirstRunOutput(fetched_tweets))
            /\ UNCHANGED <<new_ids, removed_ids>>
       ELSE LET deduped == Deduped(Merged(fetched_tweets, existing_tweets))
                final_ids == IdsOf(deduped)
            IN  /\ output_file' = FileOf(deduped)
                /\ new_ids' = NewIds(final_ids, existing_ids_before)
                /\ removed_ids' = RemovedIds(final_ids, existing_ids_before)
    /\ file_mtime' = file_mtime + 1
    /\ UNCHANGED <<runs, run_locals, fetched_tweets, seen_streak, cursor,
                   old_cursor, current_page, page_pos, file_before,
                   valid_served, requests, req_cursor, got_cursor, stop_reason,
                   upstream, mtime_before, store_vars>>

Next == StartRun \/ RequestPage \/ FetchFail \/ ProcessEntry \/ EndOfPage \/ FinishRun

\* Any sequence of sync runs from a fresh installation, the upstream arbitrary.
Spec == Init /\ [][Next]_vars

(* ---------------------------- one harvest ----------------------------- *)
\* The corpora a run can find: any sequence of tweets fetched earlier.
Corpora == SeqsUpTo(TweetsOf({0}), MaxCorpus)

\* retrieve_all_likes at line 60, having read any corpus file, with any limit.
InitHarvest ==
    /\ output_file \in {Absent, Unreadable} \cup {FileOf(c) : c \in Corpora}
    /\ pc = "request"
    /\ runs = 1
    /\ consecutive_seen_limit \in 1..MaxLimit
    /\ first_run = ReadsAsFirstRun(output_file)
    /\ existing_tweets = ReadTweets(output_file)
    /\ existing_ids_before = IdsOf(ReadTweets(output_file))
    /\ new_ids = {}
    /\ removed_ids = {}
    /\ file_before = output_file
    /\ LoopLocalsInit
    /\ feed = <<>>
    /\ page_size = MaxPageLen
    /\ file_mtime = 0
    /\ mtime_before = 0
    /\ StoreIdle

NextHarvest == RequestPage \/ FetchFail \/ ProcessEntry \/ EndOfPage \/ FinishRun

\* One sync run against an arbitrary upstream.
SpecHarvest == InitHarvest /\ [][NextHarvest]_vars

(* ---------------------------- one merge ------------------------------- *)
\* retrieve_all_likes at line 96 of a run that read a corpus, with any
\* window: the same tweet may have been served twice with different content.
InitReconcile ==
    /\ existing_tweets \in Corpora
    /\ fetched_tweets \in SeqsUpTo(TweetsOf({1, 2}), MaxFetched)
    /\ output_file = FileOf(existing_tweets)
    /\ pc = "after_loop"
    /\ runs = 1
    /\ consecutive_seen_limit = 1
    /\ first_run = FALSE
    /\ existing_ids_before = IdsOf(existing_tweets)
    /\ new_ids = {}
    /\ removed_ids = {}
    /\ file_before = output_file
    /\ seen_streak = 0
    /\ cursor = NoCursor
    /\ old_cursor = NoCursor
    /\ current_page = 1
    /\ page_pos = 0
    /\ valid_served = fetched_tweets
    /\ requests = 1
    /\ req_cursor = NoCursor
    /\ got_cursor = NoCursor
    /\ stop_reason = "cursor"
    /\ feed = <<>>
    /\ page_size = MaxPageLen
    /\ file_mtime = 0
    /\ mtime_before = 0
    /\ StoreIdle

NextReconcile == FinishRun

\* The merge step applied to any window and any corpus.
SpecReconcile == InitReconcile /\ [][NextReconcile]_vars

(* ---------------------------- runs against a feed --------------------- *)
\* A fresh installation and a feed that stays as it is.
InitFeed ==
    /\ output_file \in {Absent, Unreadable}
    /\ pc = "idle"
    /\ runs = 0
    /\ consecutive_seen_limit = 1
    /\ first_run = TRUE
    /\ existing_tweets = <<>>
    /\ existing_ids_before = {}
    /\ new_ids = {}
    /\ removed_ids = {}
    /\ file_before = output_file
    /\ LoopLocalsInit
    /\ feed \in {SubSeq(FeedOrder, 1, n) : n \in 0..Len(FeedOrder)}
    /\ page_size \in 1..MaxPageLen
    /\ file_mtime = 0
    /\ mtime_before = 0
    /\ StoreIdle

NextFeed ==
    StartRun \/ FeedRequestPage \/ FetchFail \/ FeedEntry \/ FeedEndOfPage \/ FinishRun

\* Any sequence of sync runs against a fixed feed whose requests may fail.
SpecFeed == InitFeed /\ [][NextFeed]_vars

(* ---------------------------- an upstream that cycles ---------------- *)
\* The upstream has RingSize continuation tokens and answers a request made
\* with one of them (or with none) by a page that names the next one.
RingSize == 3
NextInRing(c) == (c % RingSize) + 1

\* current_page and the count of requests are only printed and read by the
\* properties: they are counted up to MaxCounted.
MaxCounted == 4
CountUp(n) == IF n < MaxCounted THEN n + 1 ELSE n

\* Lines 61-65: retrieve_likes_page returned a non-empty entry list.
RingRequestPage ==
    /\ pc = "request"
    /\ pc' = "for"
    /\ page_pos' = 0
    /\ requests' = CountUp(requests)
    /\ req_cursor' = cursor
    /\ UNCHANGED <<output_file, runs, run_locals, fetched_tweets, seen_streak,
                   cursor, old_cursor, current_page, new_ids, removed_ids,
                   file_before, valid_served, got_cursor, stop_reason,
                   upstream, file_mtime, mtime_before, store_vars>>

\* Lines 85-94: the page is exhausted and its cursor entry names the token
\* after the one it was requested with.
RingEndOfPage ==
    /\ pc = "for"
    /\ IF seen_streak >= consecutive_seen_limit
       THEN /\ pc' = "after_loop"
            /\ stop_reason' = "streak"
            /\ UNCHANGED <<cursor, old_cursor, current_page, got_cursor>>
       ELSE /\ got_cursor' = NextInRing(req_cursor)
            /\ IF CursorStops(NextInRing(req_cursor), cursor, old_cursor)
               THEN /\ pc' = "after_loop"
                    /\ stop_reason' = "cursor"
                    /\ UNCHANGED <<cursor, old_cursor, current_page>>
               ELSE /\ old_cursor' = cursor
                    /\ cursor' = NextInRing(req_cursor)
                    /\ current_page' = CountUp(current_page)
                    /\ pc' = "request"
                    /\ UNCHANGED stop_reason
    /\ UNCHANGED <<output_file, runs, run_locals, fetched_tweets, seen_streak,
                   page_pos, new_ids, removed_ids, file_before, valid_served,
                   requests, req_cursor, upstream, file_mtime, mtime_before,
                   store_vars>>

NextRing ==
    RingRequestPage \/ FetchFail \/ ProcessEntry \/ RingEndOfPage \/ FinishRun

\* One sync run against an upstream whose cursors cycle; the run is a
\* sequential program whose upstream answers, so it always takes a next step.
SpecRing == InitHarvest /\ [][NextRing]_vars /\ WF_vars(NextRing)

(* ---------------------------- a feed ahead of the corpus ------------- *)
\* The feeds of distinct tweets.
DistinctFeeds ==
    {f \in SeqsUpTo(TweetIds, Cardinality(TweetIds)) :
        \A i, j \in 1..Len(f) : i # j => f[i] # f[j]}

\* What the upstream serves at position k of the feed: a tweet of the corpus
\* as it was persisted, any other as it is at the time of this run.
FeedRecord(k) ==
    [tweet_id |-> feed[k],
     ver |-> IF feed[k] \in existing_ids_before THEN 0 ELSE runs]
FeedRecords == [k \in 1..Len(feed) |-> FeedRecord(k)]

\* retrieve_all_likes at line 60, having read a corpus that is the tail of
\* the feed, with any limit; the feed is served in pages of any size.
InitConverge ==
    /\ feed \in DistinctFeeds
    /\ page_size \in 1..MaxPageLen
    /\ \E n \in 0..Len(feed) :
          existing_tweets = [k \in 1..(Len(feed) - n) |->
                               [tweet_id |-> feed[n + k], ver |-> 0]]
    /\ output_file = FileOf(existing_tweets)
    /\ pc = "request"
    /\ runs = 1
    /\ consecutive_seen_limit \in 1..MaxLimit
    /\ first_run = FALSE
    /\ existing_ids_before = IdsOf(existing_tweets)
    /\ new_ids = {}
    /\ removed_ids = {}
    /\ file_before = output_file
    /\ LoopLocalsInit
    /\ file_mtime = 0
    /\ mtime_before = 0
    /\ StoreIdle

\* The feed's page holds a further entry: the next record of the feed.
FeedRecordEntry ==
    /\ pc = "for"
    /\ page_pos < page_size
    /\ req_cursor + page_pos < Len(feed)
    /\ TakeEntry(FeedRecord(req_cursor + page_pos + 1))

NextConverge ==
    FeedRequestPage \/ FeedRecordEntry \/ FeedEndOfPage \/ FinishRun

\* One sync run, no fetch failing, against a feed that is the corpus with
\* new tweets in front.
SpecConverge == InitConverge /\ [][NextConverge]_vars

(* ---------------------------- the refresh response ------------------- *)
\* gallery_server lines 45-55: None for a missing file, else the mtime, the
\* size and the md5 of the bytes; the size and the md5 are told by the bytes.
NoFingerprint == [found |-> FALSE, st_mtime_ns |-> 0, data |-> Absent]
file_fingerprint(file, mtime) ==
    IF file.st = "absent" THEN NoFingerprint
    ELSE [found |-> TRUE, st_mtime_ns |-> mtime, data |-> file]

\* Lines 135-139 of the refresh that ran the sync run just ended.
before_fp == file_fingerprint(file_before, mtime_before)
after_fp == file_fingerprint(output_file, file_mtime)
file_updated == before_fp # after_fp

\* Lines 134 and 142-148.
get_tweet_ids(file) == IdsOf(ReadTweets(file))
refresh_new_ids ==
    IF file_updated
    THEN get_tweet_ids(output_file) \ get_tweet_ids(file_before)
    ELSE {}
new_tweets_list ==
    IF refresh_new_ids = {} THEN <<>>
    ELSE SelectSeq(ReadTweets(output_file),
                   LAMBDA t : t.tweet_id \in refresh_new_ids)

\* Lines 149-154.
RefreshResponse ==
    [new_found |-> refresh_new_ids # {},
     updated |-> file_updated,
     new_count |-> Len(new_tweets_list)]

\* Lines 141-144: _process_media, and with it parse_media.main(), is called.
MediaProcessed == file_updated

(* ---------------------------- full_cleanup ---------------------------- *)
\* Lines 155-168: the canonical names of the URLs of JSON_FILE.
ReferencedFiles(urls) == {canonical_media_filename(u) : u \in urls}

\* Lines 171-181, the first pass.
RemoveOrphans(d, referenced_files) ==
    [n \in Names |->
        IF referenced_files # {} /\ n \notin referenced_files
        THEN NoContent ELSE d[n]]

\* The orders in which iterdir can list a set of files.
ScanOrders(files) ==
    {scan \in [1..Cardinality(files) -> files] :
        \A i, j \in 1..Cardinality(files) : i # j => scan[i] # scan[j]}

\* Lines 192-216 with the later file of a pair kept and the earlier removed.
RECURSIVE DedupeScanKeepLater(_, _, _)
DedupeScanKeepLater(scan, k, st) ==
    IF k > Len(scan) THEN st
    ELSE LET file_hash == compute_file_hash(st.disk, scan[k])
         IN  IF file_hash = "" THEN DedupeScanKeepLater(scan, k + 1, st)
             ELSE IF st.seen_hashes[file_hash] # NoName
             THEN DedupeScanKeepLater(scan, k + 1,
                     [st EXCEPT !.disk = Unlink(@, st.seen_hashes[file_hash]),
                                !.removed_to_kept[st.seen_hashes[file_hash]] = scan[k],
                                !.seen_hashes[file_hash] = scan[k]])
             ELSE DedupeScanKeepLater(scan, k + 1,
                     [st EXCEPT !.seen_hashes[file_hash] = scan[k]])

\* Lines 192-216, the second pass from the k-th file of the listing on.
RECURSIVE DedupeScan(_, _, _)
DedupeScan(scan, k, st) ==
    IF k > Len(scan) THEN st
    ELSE LET file_hash == compute_file_hash(st.disk, scan[k])
         IN  IF file_hash = "" THEN DedupeScan(scan, k + 1, st)
             ELSE IF st.seen_hashes[file_hash] # NoName
             THEN DedupeScan(scan, k + 1,
                     [st EXCEPT !.disk = Unlink(@, scan[k]),
                                !.removed_to_kept[scan[k]] = st.seen_hashes[file_hash]])
             ELSE DedupeScan(scan, k + 1,
                     [st EXCEPT !.seen_hashes[file_hash] = scan[k]])

\* Lines 186-189 with the hashes of the persisted cache taken as seen.
DedupeStartFromCache(d) ==
    [disk |-> d, seen_hashes |-> hash_file, removed_to_kept |-> NoRemovals]

\* Lines 186-189 and 192.
DedupeStart(d) ==
    [disk |-> d, seen_hashes |-> NoHashes, removed_to_kept |-> NoRemovals]

\* Lines 226-232 without the elif branch.
RepairDuplicatesRepointOnly(dup_map, removed_to_kept, d) ==
    [u \in Urls |->
        IF dup_map[u] = NoName THEN NoName
        ELSE IF removed_to_kept[dup_map[u]] # NoName
        THEN removed_to_kept[dup_map[u]]
        ELSE dup_map[u]]

\* Lines 223-236, the third pass.
RepairDuplicates(dup_map, removed_to_kept, d) ==
    [u \in Urls |->
        IF dup_map[u] = NoName THEN NoName
        ELSE IF removed_to_kept[dup_map[u]] # NoName
        THEN removed_to_kept[dup_map[u]]
        ELSE IF ~Exists(d, dup_map[u]) THEN NoName
        ELSE dup_map[u]]

\* Lines 147-236, run by thread h.
full_cleanup(h) ==
    /\ hpc[h] = "cleanup"
    /\ DOWNLOAD_IMAGES
    /\ LET pruned == RemoveOrphans(disk, ReferencedFiles(json_urls))
       IN  \E scan \in ScanOrders(FilesOf(pruned)) :
             LET st == DedupeScan(scan, 1, DedupeStart(pruned))
             IN  /\ disk' = st.disk
                 /\ hash_file' = st.seen_hashes
                 /\ dup_file' = RepairDuplicates(dup_file, st.removed_to_kept,
                                                 st.disk)
                 /\ gc_scan' = scan
                 /\ gc_removed' = st.removed_to_kept
    /\ gc_before' = StoreOf(disk, hash_file, dup_file)
    /\ gc_runs' = gc_runs + 1
    /\ hpc' = [hpc EXCEPT ![h] = "process"]
    /\ UNCHANGED <<json_urls, lock, hash_cache, known_duplicates, unique_pairs,
                   wpc, whash, wpath, results, mains, sync_vars>>

(* ---------------------------- main() of parse_media ------------------- *)
worker_locals == <<wpc, whash, wpath, results>>
gc_history == <<gc_runs, gc_before, gc_scan, gc_removed>>

\* gallery_server lines 143 and 160-166, or the command line: the sync has
\* written the corpus file, and main() is called.
MainBegins(h) ==
    /\ hpc[h] = "idle"
    /\ mains < MaxMains
    /\ mains' = mains + 1
    /\ \E urls \in SUBSET Urls : json_urls' = urls
    /\ hpc' = [hpc EXCEPT ![h] = "cleanup"]
    /\ UNCHANGED <<disk, hash_file, dup_file, lock, hash_cache,
                   known_duplicates, unique_pairs, worker_locals, gc_history,
                   sync_vars>>

\* Lines 390-391, 345-362, 316-328: the corpus and the two caches are read,
\* one worker per URL is submitted.
BatchBegins(h) ==
    /\ hpc[h] = "process"
    /\ hpc' = [hpc EXCEPT ![h] = "fetch"]
    /\ hash_cache' = [hash_cache EXCEPT ![h] = hash_file]
    /\ known_duplicates' = [known_duplicates EXCEPT ![h] = dup_file]
    /\ unique_pairs' = [unique_pairs EXCEPT ![h] = json_urls]
    /\ wpc' = [wpc EXCEPT ![h] =
                [u \in Urls |-> IF u \in json_urls THEN "start" ELSE "none"]]
    /\ whash' = [whash EXCEPT ![h] = [u \in Urls |-> NoContent]]
    /\ wpath' = [wpath EXCEPT ![h] = [u \in Urls |-> NoName]]
    /\ results' = [results EXCEPT ![h] = [u \in Urls |-> NoName]]
    /\ UNCHANGED <<json_urls, disk, hash_file, dup_file, lock, mains,
                   gc_history, sync_vars>>

(* ---------------------------- download_single_file -------------------- *)
\* The worker returns name (NoName for None).
Returns(h, u, name) ==
    /\ results' = [results EXCEPT ![h][u] = name]
    /\ wpc' = [wpc EXCEPT ![h][u] = "done"]

\* Line 255: with SHARED_LOCK.
AcquireFast(h, u) ==
    /\ wpc[h][u] = "start"
    /\ lock = NoWorker
    /\ lock' = <<h, u>>
    /\ wpc' = [wpc EXCEPT ![h][u] = "fast"]
    /\ UNCHANGED <<json_urls, disk, hash_file, dup_file, hpc, hash_cache,
                   known_duplicates, unique_pairs, whash, wpath, results,
                   mains, gc_history, sync_vars>>

\* Lines 256-264 with the lock released by the return statements only.
FastPathKeepsLock(h, u) ==
    /\ wpc[h][u] = "fast"
    /\ lock = <<h, u>>
    /\ IF known_duplicates[h][u] # NoName
       THEN lock' = NoWorker /\ Returns(h, u, known_duplicates[h][u])
       ELSE IF Exists(disk, canonical_media_filename(u))
       THEN lock' = NoWorker /\ Returns(h, u, canonical_media_filename(u))
       ELSE /\ wpc' = [wpc EXCEPT ![h][u] = "net"]
            /\ UNCHANGED <<results, lock>>
    /\ UNCHANGED <<json_urls, disk, hash_file, dup_file, hpc, hash_cache,
                   known_duplicates, unique_pairs, whash, wpath, mains,
                   gc_history, sync_vars>>

\* Lines 256-264: the fast path, the lock released on leaving the with
\* block, and the test of final_path.
FastPath(h, u) ==
    /\ wpc[h][u] = "fast"
    /\ lock = <<h, u>>
    /\ lock' = NoWorker
    /\ IF known_duplicates[h][u] # NoName
       THEN Returns(h, u, known_duplicates[h][u])
       ELSE IF Exists(disk, canonical_media_filename(u))
       THEN Returns(h, u, canonical_media_filename(u))
       ELSE /\ wpc' = [wpc EXCEPT ![h][u] = "net"]
            /\ UNCHANGED results
    /\ UNCHANGED <<json_urls, disk, hash_file, dup_file, hpc, hash_cache,
                   known_duplicates, unique_pairs, whash, wpath, mains,
                   gc_history, sync_vars>>

\* Lines 100-115 with the original removed whether or not the image was
\* saved.
ConvertOutcomesUnlinksOriginal(d, u) ==
    IF Exists(d, WebpName(u))
    THEN {[disk |-> d, path |-> WebpName(u)]}
    ELSE {[disk |-> [d EXCEPT ![WebpName(u)] = WebpOf(d[OriginalName(u)]),
                              ![OriginalName(u)] = NoContent],
           path |-> WebpName(u)],
          [disk |-> Unlink(d, OriginalName(u)), path |-> OriginalName(u)]}

\* Lines 100-115: the disk and the path convert_to_webp can leave.
ConvertOutcomes(d, u) ==
    IF Exists(d, WebpName(u))
    THEN {[disk |-> d, path |-> WebpName(u)]}
    ELSE {[disk |-> [d EXCEPT ![WebpName(u)] = WebpOf(d[OriginalName(u)]),
                              ![OriginalName(u)] = NoContent],
           path |-> WebpName(u)],
          [disk |-> d, path |-> OriginalName(u)]}

\* Lines 267-279 when the download succeeds.
StoreOutcomes(d, u) ==
    LET written == [d EXCEPT ![OriginalName(u)] = BytesAt(u)]
    IN  IF u \in CONVERT_EXTS THEN ConvertOutcomes(written, u)
        ELSE {[disk |-> written, path |-> OriginalName(u)]}

\* Lines 267-276 when they raise: nothing was written, or the file was
\* opened and the transfer broke.
FailureOutcomes(d, u) == {d, [d EXCEPT ![OriginalName(u)] = Truncated]}

\* Lines 266-282: the request returns; the file is written, converted and
\* hashed, or the worker returns None.
Retrieve(h, u) ==
    /\ wpc[h][u] = "net"
    /\ \/ \E d \in FailureOutcomes(disk, u) :
            /\ disk' = d
            /\ results' = [results EXCEPT ![h][u] = NoName]
            /\ wpc' = [wpc EXCEPT ![h][u] = "failed"]
            /\ UNCHANGED <<whash, wpath>>
       \/ \E o \in StoreOutcomes(disk, u) :
            /\ disk' = o.disk
            /\ wpath' = [wpath EXCEPT ![h][u] = o.path]
            /\ whash' = [whash EXCEPT ![h][u] = compute_file_hash(o.disk, o.path)]
            /\ wpc' = [wpc EXCEPT ![h][u] = "hashed"]
            /\ UNCHANGED results
    /\ UNCHANGED <<json_urls, hash_file, dup_file, lock, hpc, hash_cache,
                   known_duplicates, unique_pairs, mains, gc_history,
                   sync_vars>>

\* Line 283: with SHARED_LOCK.
AcquireRegister(h, u) ==
    /\ wpc[h][u] = "hashed"
    /\ lock = NoWorker
    /\ lock' = <<h, u>>
    /\ wpc' = [wpc EXCEPT ![h][u] = "locked"]
    /\ UNCHANGED <<json_urls, disk, hash_file, dup_file, hpc, hash_cache,
                   known_duplicates, unique_pairs, whash, wpath, results,
                   mains, gc_history, sync_vars>>

\* Lines 284-298 without the lookup of line 284: the hash is entered and the
\* worker's own file kept.
RegisterWithoutLookup(h, u) ==
    /\ wpc[h][u] = "locked"
    /\ lock = <<h, u>>
    /\ lock' = NoWorker
    /\ hash_cache' = [hash_cache EXCEPT ![h][whash[h][u]] = wpath[h][u]]
    /\ Returns(h, u, wpath[h][u])
    /\ UNCHANGED <<json_urls, disk, known_duplicates, hash_file, dup_file, hpc,
                   unique_pairs, whash, wpath, mains, gc_history, sync_vars>>

\* Lines 284-298: the hash is looked up and entered under the lock; unlink
\* raises when the file is gone, and the worker then returns its own name.
Register(h, u) ==
    /\ wpc[h][u] = "locked"
    /\ lock = <<h, u>>
    /\ lock' = NoWorker
    /\ IF hash_cache[h][whash[h][u]] # NoName
       THEN IF Exists(disk, wpath[h][u])
            THEN /\ disk' = Unlink(disk, wpath[h][u])
                 /\ known_duplicates' = [known_duplicates EXCEPT
                                           ![h][u] = hash_cache[h][whash[h][u]]]
                 /\ Returns(h, u, hash_cache[h][whash[h][u]])
                 /\ UNCHANGED hash_cache
            ELSE /\ Returns(h, u, wpath[h][u])
                 /\ UNCHANGED <<disk, known_duplicates, hash_cache>>
       ELSE /\ hash_cache' = [hash_cache EXCEPT ![h][whash[h][u]] = wpath[h][u]]
            /\ Returns(h, u, wpath[h][u])
            /\ UNCHANGED <<disk, known_duplicates>>
    /\ UNCHANGED <<json_urls, hash_file, dup_file, hpc, unique_pairs, whash,
                   wpath, mains, gc_history, sync_vars>>

\* The worker has returned.
Returned(h, u) == wpc[h][u] \in {"done", "failed"}

\* Lines 330-335 and 380-381 with the batch given up at the first None.
BatchEndsAtFailure(h) ==
    /\ hpc[h] = "fetch"
    /\ \/ \A u \in unique_pairs[h] : Returned(h, u)
       \/ \E u \in unique_pairs[h] : wpc[h][u] = "failed"
    /\ \A u \in Urls : lock # <<h, u>>
    /\ hpc' = [hpc EXCEPT ![h] = "idle"]
    /\ dup_file' = IF unique_pairs[h] = {} THEN dup_file
                   ELSE known_duplicates[h]
    /\ hash_file' = hash_cache[h]
    /\ UNCHANGED <<json_urls, disk, lock, hash_cache, known_duplicates,
                   unique_pairs, worker_locals, mains, gc_history, sync_vars>>

\* Lines 330-335 and 380-381: every future has a result; the duplicate map
\* is saved if the batch had URLs, then the hash cache.
BatchEnds(h) ==
    /\ hpc[h] = "fetch"
    /\ \A u \in unique_pairs[h] : Returned(h, u)
    /\ hpc' = [hpc EXCEPT ![h] = "idle"]
    /\ dup_file' = IF unique_pairs[h] = {} THEN dup_file
                   ELSE known_duplicates[h]
    /\ hash_file' = hash_cache[h]
    /\ UNCHANGED <<json_urls, disk, lock, hash_cache, known_duplicates,
                   unique_pairs, worker_locals, mains, gc_history, sync_vars>>

WorkerStep(h, u) ==
    \/ AcquireFast(h, u)
    \/ FastPath(h, u)
    \/ Retrieve(h, u)
    \/ AcquireRegister(h, u)
    \/ Register(h, u)

(* ---------------------------- main() run again and again -------------- *)
InitMedia == SyncIdle /\ StoreIdle

NextMedia ==
    \/ MainBegins(1)
    \/ full_cleanup(1)
    \/ BatchBegins(1)
    \/ \E u \in Urls : WorkerStep(1, u)
    \/ BatchEnds(1)

\* main() called one call after the other, the corpus changing in between.
SpecMedia == InitMedia /\ [][NextMedia]_vars

(* ---------------------------- refresh requests ------------------------ *)
\* gallery_server lines 133-147 and 160-166: the thread of a POST /refresh
\* has run download_tweets.main(), which wrote a corpus of image tweets, and
\* calls parse_media.main().
RefreshBegins(h) ==
    /\ hpc[h] = "idle"
    /\ mains < MaxMains
    /\ mains' = mains + 1
    /\ \E urls \in SUBSET CONVERT_EXTS : json_urls' = urls
    /\ hpc' = [hpc EXCEPT ![h] = "cleanup"]
    /\ UNCHANGED <<disk, hash_file, dup_file, lock, hash_cache,
                   known_duplicates, unique_pairs, worker_locals, gc_history,
                   sync_vars>>

NextServer ==
    \E h \in Threads :
        \/ RefreshBegins(h)
        \/ full_cleanup(h)
        \/ BatchBegins(h)
        \/ \E u \in Urls : WorkerStep(h, u)
        \/ BatchEnds(h)

\* The store a main() over the two image URLs leaves: the converted file of
\* u1, which registered its hash first, and u2 recorded as its duplicate.
StoreAfterImages ==
    /\ json_urls = CONVERT_EXTS
    /\ disk = [NoFiles EXCEPT ![WebpName("u1")] = WebpOf(BytesAt("u1"))]
    /\ hash_file = [NoHashes EXCEPT ![WebpOf(BytesAt("u1"))] = WebpName("u1")]
    /\ dup_file = [NoDuplicates EXCEPT !["u2"] = WebpName("u1")]
    /\ ThreadsIdle
    /\ NoCleanupYet

\* The server starts on an empty store or on one an earlier main() filled.
InitServer == SyncIdle /\ (StoreIdle \/ StoreAfterImages)

\* POST /refresh handled by ThreadedHTTPServer: a thread per request, each
\* calling main().
SpecServer == InitServer /\ [][NextServer]_vars

(* ---------------------------- cleanups of any store ------------------- *)
\* The files a store can hold: under a converted name a converted image,
\* under a download's name the rest of a broken transfer or, when no
\* conversion follows, what was downloaded.
Disks ==
    {d \in [Names -> Contents \cup {NoContent}] :
        \A u \in Urls :
          IF u \in CONVERT_EXTS
          THEN /\ d[OriginalName(u)] \in {NoContent, Truncated}
               /\ d[WebpName(u)] \in {NoContent, WebpOf(BytesAt(u))}
          ELSE d[OriginalName(u)] \in {NoContent, BytesAt(u), Truncated}}

\* The duplicate maps a store can hold: a URL maps to a canonical name.
DuplicateMaps ==
    [Urls -> {NoName} \cup {canonical_media_filename(u) : u \in Urls}]

\* full_cleanup is about to run on any store and any corpus.
InitCleanup ==
    /\ SyncIdle
    /\ json_urls \in SUBSET Urls
    /\ disk \in Disks
    /\ hash_file = NoHashes
    /\ dup_file \in DuplicateMaps
    /\ lock = NoWorker
    /\ hpc = [h \in Threads |-> IF h = 1 THEN "cleanup" ELSE "idle"]
    /\ hash_cache = [h \in Threads |-> NoHashes]
    /\ known_duplicates = [h \in Threads |-> NoDuplicates]
    /\ unique_pairs = [h \in Threads |-> {}]
    /\ wpc = [h \in Threads |-> [u \in Urls |-> "none"]]
    /\ whash = [h \in Threads |-> [u \in Urls |-> NoContent]]
    /\ wpath = [h \in Threads |-> [u \in Urls |-> NoName]]
    /\ results = [h \in Threads |-> [u \in Urls |-> NoName]]
    /\ mains = 1
    /\ NoCleanupYet

\* full_cleanup is called again, nothing else having touched the store.
CleanupAgain ==
    /\ hpc[1] = "process"
    /\ gc_runs < MaxCleanups
    /\ hpc' = [hpc EXCEPT ![1] = "cleanup"]
    /\ UNCHANGED <<json_urls, disk, hash_file, dup_file, lock, hash_cache,
                   known_duplicates, unique_pairs, wpc, whash, wpath, results,
                   mains, gc_runs, gc_before, gc_scan, gc_removed, sync_vars>>

CleanupRuns == full_cleanup(1)

NextCleanup == CleanupRuns \/ CleanupAgain

\* full_cleanup runs, and runs again, on any store and any corpus.
SpecCleanup == InitCleanup /\ [][NextCleanup]_vars

(* ====================================================================== *)
(*                              Properties                                *)
(* ====================================================================== *)
NoDupIds(s) == \A i, j \in 1..Len(s) : i # j => s[i].tweet_id # s[j].tweet_id

\* s without every record whose id occurs earlier in s.
RECURSIVE FirstOccurrences(_)
FirstOccurrences(s) ==
    IF s = <<>> THEN <<>>
    ELSE LET front == SubSeq(s, 1, Len(s) - 1)
             last == s[Len(s)]
         IN  IF last.tweet_id \in IdsOf(front)
             THEN FirstOccurrences(front)
             ELSE Append(FirstOccurrences(front), last)

\* The records of s whose id is not in ids, in their order.
Without(s, ids) == SelectSeq(s, LAMBDA t : t.tweet_id \notin ids)

\* A run has ended and it was one that merged (it had read a corpus).
MergeDone == pc = "idle" /\ runs > 0 /\ ~first_run
OldestFetchedId == fetched_tweets[Len(fetched_tweets)].tweet_id

(* ---------------------------------------------------------------------- *)
\* C1: in every state reachable by sync runs, the persisted corpus holds no
\* two records with the same identifier, also when the upstream served the
\* same tweet twice within one harvest.
C1_CorpusIdsUnique == NoDupIds(output_file.tweets)

(* ---------------------------------------------------------------------- *)
\* C2: whatever the window and the existing corpus, the corpus the merge
\* step writes has no two records with one identifier, holds every id of the
\* concatenation, and the record kept for an id is its first occurrence in
\* the concatenation: the window's (first) record when the id is in the
\* window.
C2_ReconcileKeepsFirst ==
    MergeDone =>
        LET out == output_file.tweets
            m == Merged(fetched_tweets, existing_tweets)
        IN  /\ NoDupIds(out)
            /\ IdsOf(out) = IdsOf(m)
            /\ \A k \in 1..Len(out) :
                /\ out[k] = m[FirstIndexOf(m, out[k].tweet_id)]
                /\ out[k].tweet_id \in IdsOf(fetched_tweets) =>
                      out[k] = fetched_tweets[FirstIndexOf(fetched_tweets,
                                                           out[k].tweet_id)]

\* A merge whose window holds one id twice with different content and an id
\* of the existing corpus: the dedup pass had records to drop.
C2_Witness ==
    /\ MergeDone
    /\ Len(output_file.tweets) < Len(Merged(fetched_tweets, existing_tweets))
    /\ IdsOf(fetched_tweets) \cap IdsOf(existing_tweets) # {}
    /\ \E i, j \in 1..Len(fetched_tweets) :
        /\ i < j
        /\ fetched_tweets[i].tweet_id = fetched_tweets[j].tweet_id
        /\ fetched_tweets[i].ver # fetched_tweets[j].ver

(* ---------------------------------------------------------------------- *)
\* C3: when the window is not empty and the id of its last record occurs in
\* the existing corpus, first at position i, the new corpus is the window
\* followed by existing[i+1:], deduplicated keeping first occurrences, and
\* the records of existing[i+1:] whose id is not in the window are all kept,
\* unchanged and in their order.
C3_PrefixSupersede ==
    (MergeDone /\ fetched_tweets # <<>> /\ OldestFetchedId \in IdsOf(existing_tweets)) =>
        LET i == FirstIndexOf(existing_tweets, OldestFetchedId)
            rest == SliceFrom(existing_tweets, i)
            out == output_file.tweets
        IN  /\ out = FirstOccurrences(fetched_tweets \o rest)
            /\ Without(out, IdsOf(fetched_tweets)) = Without(rest, IdsOf(fetched_tweets))

(* ---------------------------------------------------------------------- *)
\* C4: when the window is not empty and the id of its last record does not
\* occur in the existing corpus, the new corpus is the window followed by
\* the whole existing corpus, deduplicated keeping first occurrences, and no
\* id of the existing corpus is reported as removed.
C4_NoBoundaryFallback ==
    (MergeDone /\ fetched_tweets # <<>> /\ OldestFetchedId \notin IdsOf(existing_tweets)) =>
        /\ output_file.tweets = FirstOccurrences(fetched_tweets \o existing_tweets)
        /\ IdsOf(existing_tweets) \subseteq IdsOf(output_file.tweets)
        /\ removed_ids = {}

\* A merge without boundary of a corpus that is not empty and shares an id
\* with the window.
C4_Witness ==
    /\ MergeDone
    /\ fetched_tweets # <<>>
    /\ OldestFetchedId \notin IdsOf(existing_tweets)
    /\ Len(existing_tweets) >= 2
    /\ IdsOf(fetched_tweets) \cap IdsOf(existing_tweets) # {}

(* ---------------------------------------------------------------------- *)
\* C5: merging an empty window into any existing corpus writes a corpus
\* equal to the existing one (the same records in the same order), and the
\* added and removed identifier sets are empty.
C5_EmptyWindowIdempotent ==
    (MergeDone /\ fetched_tweets = <<>>) =>
        /\ output_file.tweets = existing_tweets
        /\ new_ids = {}
        /\ removed_ids = {}

(* ---------------------------------------------------------------------- *)
\* The length of the run of tweets with known ids that ends at position p of
\* the valid tweets served.
KnownRunEndingAt(p) ==
    CHOOSE n \in 0..p :
        /\ \A j \in (p - n + 1)..p : valid_served[j].tweet_id \in existing_ids_before
        /\ n < p => valid_served[p - n].tweet_id \notin existing_ids_before

\* The positions at which consecutive_seen_limit consecutive known tweets
\* have been processed.
LimitReachedAt ==
    {p \in 1..Len(valid_served) : KnownRunEndingAt(p) >= consecutive_seen_limit}

\* C6: as soon as consecutive_seen_limit consecutive valid tweets with ids
\* of the persisted corpus have been processed (across pages, entries that
\* are no tweets not counting, an unknown id starting the count again) the
\* harvest has halted: that tweet is the last one taken from the upstream,
\* every tweet before it and nothing else is in the window, and the request
\* of its page was the last request.
C6_StoppingHeuristic ==
    LimitReachedAt # {} =>
        /\ pc \in {"after_loop", "idle"}
        /\ stop_reason = "streak"
        /\ LimitReachedAt = {Len(valid_served)}
        /\ fetched_tweets = SubSeq(valid_served, 1, Len(valid_served) - 1)
        /\ requests = current_page

\* A harvest halted by the heuristic with the largest limit by the first
\* entry of its second page (the run of known tweets began on the page
\* before), with tweets in its window.
C6_Witness ==
    /\ stop_reason = "streak"
    /\ consecutive_seen_limit = MaxLimit
    /\ consecutive_seen_limit >= 2
    /\ current_page >= 2
    /\ page_pos = 1
    /\ Len(fetched_tweets) >= 2

(* ---------------------------------------------------------------------- *)
\* C7: if the cursor extracted after a page is absent or is the cursor that
\* page was requested with, the harvest stops: whenever a further page is
\* about to be requested, the cursor extracted last was present and differed
\* from the cursor of the last request.
C7_CursorProgress ==
    (pc = "request" /\ requests >= 1) =>
        /\ got_cursor # NoCursor
        /\ got_cursor # req_cursor

(* ---------------------------------------------------------------------- *)
\* C8: when a page fetch fails after k pages were processed, the harvest has
\* stopped with that request as its last (k + 1 requests), and the window
\* handed to the merge step is exactly the valid tweets of those k pages.
C8_FailureKeepsWindow ==
    stop_reason = "failed" =>
        /\ pc \in {"after_loop", "idle"}
        /\ requests = current_page
        /\ fetched_tweets = valid_served

\* A fetch that failed on the second page or later, tweets harvested before.
C8_Witness ==
    /\ stop_reason = "failed"
    /\ pc = "after_loop"
    /\ current_page >= 2
    /\ Len(fetched_tweets) >= 2

(* ---------------------------------------------------------------------- *)
\* C9: a sync run whose harvest ended by a failed page fetch leaves the
\* corpus file as it was (stated for the runs that found a readable corpus
\* of unique ids, where no other rewriting of the file is in play).
C9_FailedRunLeavesFile ==
    (/\ pc = "idle" /\ runs > 0
     /\ stop_reason = "failed"
     /\ file_before.st = "ok" /\ NoDupIds(file_before.tweets)) =>
        output_file = file_before

(* ---------------------------------------------------------------------- *)
\* C10: against a fixed feed, a sync run without fetch failure, whatever
\* runs (failed or not) came before it, leaves a corpus that holds every
\* tweet of the feed.
C10_NoLossAcrossRuns ==
    (pc = "idle" /\ runs > 0 /\ stop_reason \in {"streak", "cursor"}) =>
        \A k \in 1..Len(feed) : feed[k] \in IdsOf(output_file.tweets)


(* ---------------------------- full_cleanup ---------------------------- *)
\* A run of full_cleanup has returned and nothing has touched the store since.
CleanupDone == gc_runs >= 1 /\ hpc[1] = "process"

\* The first pass of the run removed the file: it was there, and the corpus
\* references files but not this one.
OrphanPruned(name) ==
    /\ Exists(gc_before.disk, name)
    /\ ReferencedFiles(json_urls) # {}
    /\ name \notin ReferencedFiles(json_urls)

\* The second pass of the run removed the file.
DedupedAway(name) ==
    /\ Exists(gc_before.disk, name)
    /\ ~OrphanPruned(name)
    /\ ~Exists(disk, name)

\* The files left with the bytes the file had when the run started.
SurvivorsOf(name) == {n \in FilesOf(disk) : disk[n] = gc_before.disk[name]}

\* C13: when a run of full_cleanup has completed, every entry of the persisted
\* duplicate map names a file that exists; an entry whose file this run's
\* content dedup deleted now names the surviving file of the same content; an
\* entry whose file is missing for another reason is gone; other entries are
\* as they were.
C13_DuplicateMapRepaired ==
    CleanupDone =>
        \A u \in Urls :
            /\ dup_file[u] # NoName => Exists(disk, dup_file[u])
            /\ LET mapped == gc_before.dup_file[u]
               IN  mapped # NoName =>
                     IF DedupedAway(mapped)
                     THEN SurvivorsOf(mapped) = {dup_file[u]}
                     ELSE IF ~Exists(disk, mapped) THEN dup_file[u] = NoName
                     ELSE dup_file[u] = mapped

\* One entry was repointed to a survivor and another was removed.
C13_Witness ==
    /\ CleanupDone
    /\ \E u, v \in Urls :
        /\ gc_before.dup_file[u] # NoName
        /\ DedupedAway(gc_before.dup_file[u])
        /\ dup_file[u] # gc_before.dup_file[u]
        /\ Exists(disk, dup_file[u])
        /\ gc_before.dup_file[v] # NoName
        /\ ~Exists(gc_before.disk, gc_before.dup_file[v])
        /\ dup_file[v] = NoName

\* C14: a second run of full_cleanup straight after the first, the corpus
\* unchanged and no fetch in between, deletes no file and leaves the hash
\* map and the duplicate map as the first run wrote them.
C14_CleanupFixedPoint ==
    (gc_runs >= 2 /\ hpc[1] = "process") =>
        /\ disk = gc_before.disk
        /\ hash_file = gc_before.hash_file
        /\ dup_file = gc_before.dup_file

\* The second run has returned on a store that holds files and duplicates.
C14_Witness ==
    /\ gc_runs = 2
    /\ hpc[1] = "process"
    /\ Cardinality(FilesOf(disk)) >= 2
    /\ \E u \in Urls : dup_file[u] # NoName

\* C19: after full_cleanup, whatever the corpus (an empty one and one without
\* media included), every file left bears the canonical name of a media or
\* avatar URL of the corpus.
C19_OnlyReferencedRemain ==
    CleanupDone => FilesOf(disk) \subseteq ReferencedFiles(json_urls)

\* The positions of the listing whose files had the same bytes.
SameBytes(i, j) == gc_before.disk[gc_scan[i]] = gc_before.disk[gc_scan[j]]
FirstWithBytes(j) == CHOOSE i \in 1..j : SameBytes(i, j) /\ \A k \in 1..(i - 1) : ~SameBytes(k, j)

\* C20: when full_cleanup has completed, the persisted hash map has an entry
\* for a hash exactly if a surviving file has that hash, the entry names an
\* existing file with that hash, and a file listed after one of the same hash
\* is deleted and mapped to the first such file, which survives.
C20_HashMapRebuilt ==
    CleanupDone =>
        /\ \A c \in Contents :
            /\ hash_file[c] # NoName <=> \E n \in FilesOf(disk) : disk[n] = c
            /\ hash_file[c] # NoName => compute_file_hash(disk, hash_file[c]) = c
        /\ \A n, m \in FilesOf(disk) : n # m => disk[n] # disk[m]
        /\ \A j \in 1..Len(gc_scan) :
            IF FirstWithBytes(j) = j
            THEN /\ Exists(disk, gc_scan[j])
                 /\ gc_removed[gc_scan[j]] = NoName
            ELSE /\ ~Exists(disk, gc_scan[j])
                 /\ gc_removed[gc_scan[j]] = gc_scan[FirstWithBytes(j)]

\* Three files of the same bytes were listed: two were deleted.
C20_Witness ==
    /\ CleanupDone
    /\ \E i, j, k \in 1..Len(gc_scan) :
        /\ i < j /\ j < k
        /\ SameBytes(i, j) /\ SameBytes(j, k)
        /\ Exists(disk, gc_scan[i])
        /\ ~Exists(disk, gc_scan[j])
        /\ ~Exists(disk, gc_scan[k])


(* ---------------------------- fetch batches --------------------------- *)
\* The batch of thread h has completed: line 381 has saved the hash cache.
BatchDone(h) == hpc[h] = "idle" /\ mains >= 1

\* The worker of u downloaded and stored a file in the last batch of h.
Downloaded(h, u) ==
    /\ u \in unique_pairs[h]
    /\ wpc[h][u] = "done"
    /\ whash[h][u] # NoContent

FilesWithBytes(c) == {n \in FilesOf(disk) : disk[n] = c}

\* The worker's own file is not what it returned.
Lost(h, u) == results[h][u] # wpath[h][u]

C15_FailureIsolated ==
    BatchDone(1) =>
        \A u \in Urls :
            /\ Returned(1, u) <=> u \in unique_pairs[1]
            /\ u \notin unique_pairs[1] => wpc[1][u] = "none"
            /\ wpc[1][u] = "failed" => results[1][u] = NoName
            /\ wpc[1][u] = "done" =>
                  /\ results[1][u] # NoName
                  /\ Exists(disk, results[1][u])

\* A URL failed, and a URL with the same bytes beside it was downloaded and
\* stored under its own name.
C15_Witness ==
    /\ BatchDone(1)
    /\ \E u, v \in Urls :
        /\ u # v /\ BytesAt(u) = BytesAt(v)
        /\ wpc[1][u] = "failed"
        /\ results[1][u] = NoName
        /\ Downloaded(1, v)
        /\ results[1][v] = canonical_media_filename(v)
        /\ Exists(disk, results[1][v])

\* A step the batch of thread 1 can take.
BatchProgress == (\E u \in Urls : WorkerStep(1, u)) \/ BatchEnds(1)

\* C16: a worker in its network retrieval does not hold the shared lock, a
\* worker that has returned does not hold it, and a batch in flight can
\* always take a step: a worker can, or the batch completes and saves the
\* duplicate map.
C16_LockDiscipline ==
    /\ \A u \in Urls :
        /\ wpc[1][u] = "net" => lock # <<1, u>>
        /\ Returned(1, u) => lock # <<1, u>>
    /\ hpc[1] = "fetch" => ENABLED BatchProgress

\* One worker is in its retrieval while another holds the lock, and a third
\* has returned.
C16_Witness ==
    /\ hpc[1] = "fetch"
    /\ \E u, v, w \in Urls :
        /\ wpc[1][u] = "net"
        /\ wpc[1][v] = "locked" /\ lock = <<1, v>>
        /\ Returned(1, w)


(* ---------------------------- overlapping refreshes ------------------- *)
\* No thread is inside main(): no worker is in a put, no cleanup is running.
Quiescent == \A h \in Threads : hpc[h] = "idle"

\* The file holds what a completed download, converted or not, stored.
Complete(name) == Exists(disk, name) /\ disk[name] # Truncated

\* C12: at every quiescent point, whatever fetch batches and cleanups the
\* refresh requests, overlapping ones included, have run, no two files of the
\* store have the same content hash. Stated for the files of completed
\* downloads only, which is less than the claim says.
C12_NoTwoFilesSameHash ==
    Quiescent =>
        \A n, m \in Names :
            (n # m /\ Complete(n) /\ Complete(m)) => disk[n] # disk[m]

\* C17: whatever the interleaving of the refresh requests, full_cleanup does
\* not run while a fetch batch on the same store is in flight, and no two
\* fetch batches, each with its own copy of the hash map, are in flight at
\* the same time.
C17_PhasesSerialized ==
    \A g, h \in Threads :
        g # h =>
            /\ ~(hpc[g] = "cleanup" /\ hpc[h] = "fetch")
            /\ ~(hpc[g] = "fetch" /\ hpc[h] = "fetch")


(* ---------------------------- the refresh response ------------------- *)
\* The sync run of a refresh has returned.
RefreshSynced == pc = "idle" /\ runs >= 1

\* C18: a refresh reports updated exactly if the corpus file after its sync
\* differs in content from the one before; a sync that leaves an identical
\* corpus gives updated = false, new_found = false, new_count = 0, and the
\* media are not processed again.
C18_UpdatedIffChanged ==
    RefreshSynced =>
        /\ RefreshResponse.updated <=> output_file # file_before
        /\ output_file = file_before =>
              /\ ~RefreshResponse.new_found
              /\ RefreshResponse.new_count = 0
              /\ ~MediaProcessed


(* ---------------------------- put ------------------------------------- *)
\* The worker of u in thread h leaves the fast path with the name the
\* duplicate map holds for u.
ReturnsDuplicate(h, u) ==
    /\ wpc[h][u] = "fast"
    /\ known_duplicates[h][u] # NoName
    /\ wpc'[h][u] = "done"
    /\ results'[h][u] = known_duplicates[h][u]

\* C21: a worker returns the name the duplicate map records for its URL,
\* without a download, only when that file exists in the store at that
\* moment; with the file missing it goes on to the download.
C21_FastPathNeedsFile ==
    [][\A h \in Threads, u \in Urls :
          ReturnsDuplicate(h, u) => Exists(disk, known_duplicates[h][u])]_vars

\* The worker of the raster URL u stored its download and convert_to_webp
\* gave the original path back: the conversion failed.
Unconverted(h, u) ==
    /\ u \in unique_pairs[h] \cap CONVERT_EXTS
    /\ wpc[h][u] = "done"
    /\ wpath[h][u] = OriginalName(u)

\* The result of u is a file of the store holding u's bytes, converted or
\* not, and the persisted hash map has that file under its hash.
StoredFor(h, u) ==
    /\ results[h][u] # NoName
    /\ disk[results[h][u]] \in {BytesAt(u), WebpOf(BytesAt(u))}
    /\ hash_file[disk[results[h][u]]] = results[h][u]

FailedIn(h, u) == u \in unique_pairs[h] /\ wpc[h][u] = "failed"

\* C23: when a batch has completed in which the retrieval of a URL raised,
\* at whatever point, the persisted hash map has no entry for the URL's
\* canonical name, the persisted duplicate map has no entry for the URL, and
\* no file is on disk under the URL's canonical name, so that the next batch
\* cannot return a cached name for it.
C23_FailureLeavesNothing ==
    BatchDone(1) =>
        \A u \in Urls :
            FailedIn(1, u) =>
                /\ \A c \in Contents :
                      hash_file[c] # canonical_media_filename(u)
                /\ dup_file[u] = NoName
                /\ ~Exists(disk, canonical_media_filename(u))

\* The run of SpecConverge has ended.
RunEnded == pc = "idle"

\* C24: when the upstream feed is N ++ E, E the persisted corpus with unique
\* ids and N records with other ids, then for every limit >= 1 and every
\* page size one sync run with no fetch failure leaves the persisted corpus
\* equal to N ++ E, the added ids being the ids of N and the removed ids
\* none.
C24_ConvergesToFeed ==
    RunEnded =>
        /\ output_file = FileOf(FeedRecords)
        /\ new_ids = IdsOf(FeedRecords) \ IdsOf(existing_tweets)
        /\ removed_ids = {}

\* A run that met one new tweet, took the first tweet of a corpus of two
\* into its window and stopped at the second.
C24_Witness ==
    /\ RunEnded
    /\ consecutive_seen_limit = 2
    /\ stop_reason = "streak"
    /\ Len(existing_tweets) = 2
    /\ Len(fetched_tweets) = 2
    /\ Cardinality(new_ids) = 1
    /\ Len(output_file.tweets) = 3

\* full_cleanup has just run in a main() that follows a batch, over a corpus
\* with all the URLs of that batch.
CleanupFollowsBatch(h) ==
    /\ hpc[h] = "process"
    /\ unique_pairs[h] # {}
    /\ unique_pairs[h] \subseteq json_urls

\* The name is the canonical name of u, or that of another URL whose file
\* the duplicate map gave u when the batch ended.
CanonicalOrOwner(u, name) ==
    \/ name = canonical_media_filename(u)
    \/ \E v \in Urls \ {u} :
          /\ name = canonical_media_filename(v)
          /\ gc_before.dup_file[u] = name

\* C25: every file name a completed batch returned for a URL is the
\* canonical name of that URL or the canonical name of another URL's file
\* recorded as its content owner, and a full_cleanup that directly follows
\* the batch, over a corpus with all the batch's URLs, leaves every file the
\* batch returned on disk.
C25_ReturnedFilesSurviveCleanup ==
    CleanupFollowsBatch(1) =>
        \A u \in unique_pairs[1] :
            results[1][u] # NoName =>
                /\ CanonicalOrOwner(u, results[1][u])
                /\ Exists(disk, results[1][u])

\* The contents a URL resolves to in a store: that of its canonical file and
\* that of the file the duplicate map sends it to, where they are on disk.
ResolvesTo(store, u) ==
    {store.disk[n] : n \in {m \in {canonical_media_filename(u), store.dup_file[u]} :
                              m # NoName /\ Exists(store.disk, m)}}

\* C26: when a URL of the live corpus resolved to an existing file before a
\* run of full_cleanup (its canonical file was on disk, or the duplicate map
\* sent it to a file on disk), it resolves to an existing file with the same
\* content after the run.
C26_CleanupKeepsLiveUrlsResolved ==
    CleanupDone =>
        \A u \in json_urls :
            ResolvesTo(gc_before, u) # {} =>
                ResolvesTo(StoreOf(disk, hash_file, dup_file), u)
                    \cap ResolvesTo(gc_before, u) # {}

\* C27: against an upstream that uses only finitely many distinct cursor
\* values, the harvest requests finitely many pages and the run comes to its
\* end, whatever the limit and whether or not a fetched tweet is in the
\* corpus.
C27_HarvestTerminates == <>(pc = "idle")

====
